---- MODULE Spec2Model ----
(***************************************************************************)
(* Model of src/data.py: the analysis pipeline of the Excel visualisation  *)
(* tool (auto_clean_data, detect_data_types, the correlation pairs of      *)
(* auto_visualize_numeric, suggest_analysis_insights and the control flow  *)
(* of main).                                                               *)
(*                                                                         *)
(* A table (DataFrame) is [nrows, cols]; a column is [name, dtype, cells]; *)
(* a cell is [k, n, s] with k in {"nan","num","str","bool","date"}.  Text  *)
(* is a sequence of one-character strings so that comma stripping and      *)
(* parsing are computed, not assumed.                                      *)
(***************************************************************************)
EXTENDS Integers, Sequences, FiniteSets, TLC

VARIABLES
  phase,     \* position of the run
  raw,       \* the table as read (before auto_clean_data)
  df,        \* the table the components work on
  df2,       \* auto_clean_data applied to df once more
  types,     \* (numeric_cols, categorical_cols, datetime_cols)
  uploaded,  \* uploaded_file is not None
  opts,      \* the five sidebar checkboxes
  has,       \* which of the three column lists are non-empty in main
  log,       \* the calls main has completed, in order
  raised,    \* the call that raised inside main's try block, or "none"
  rateIn,    \* (total missing, rows, columns) given to the missing-rate rule
  insights,  \* the insights list of suggest_analysis_insights
  pairs      \* corr_pairs after sort_values

vars == <<phase, raw, df, df2, types, uploaded, opts, has, log, raised,
          rateIn, insights, pairs>>

----------------------------------------------------------------------------
(* Bounds of the cleaning model *)
MaxRows == 2
MaxCols == 2

(* Cells *)
NaN == [k |-> "nan", n |-> 0, s |-> <<>>]
Num(i) == [k |-> "num", n |-> i, s |-> <<>>]
Str(t) == [k |-> "str", n |-> 0, s |-> t]
Bool(b) == [k |-> "bool", n |-> IF b THEN 1 ELSE 0, s |-> <<>>]
Date(d) == [k |-> "date", n |-> d, s |-> <<>>]

\* pandas isnull(): NaN / NaT / None
IsNull(c) == c.k = "nan"

Digits == {"0", "1", "2", "3", "4", "5", "6", "7", "8", "9"}

DigitVal(ch) ==
  CASE ch = "0" -> 0 [] ch = "1" -> 1 [] ch = "2" -> 2 [] ch = "3" -> 3
    [] ch = "4" -> 4 [] ch = "5" -> 5 [] ch = "6" -> 6 [] ch = "7" -> 7
    [] ch = "8" -> 8 [] ch = "9" -> 9

NanText == <<"n", "a", "n">>

\* Text values a raw object column may hold
Texts ==
  { <<"1", ",", "2">>,      \* a number with a thousands separator
    <<"a", ",", "b">>,      \* text with a comma, not a number
    <<",">>,                \* a lone separator
    <<"1", "-", "2">>,      \* a date
    <<"a">> }               \* plain text

\* str.replace(',', '') (data.py:77)
RECURSIVE StripCommas(_)
StripCommas(t) ==
  IF t = <<>> THEN <<>>
  ELSE IF Head(t) = "," THEN StripCommas(Tail(t))
       ELSE <<Head(t)>> \o StripCommas(Tail(t))

RECURSIVE DecimalValue(_, _)
DecimalValue(t, acc) ==
  IF t = <<>> THEN acc ELSE DecimalValue(Tail(t), 10 * acc + DigitVal(Head(t)))

AllDigits(t) == Len(t) > 0 /\ \A i \in 1..Len(t) : t[i] \in Digits

\* What pd.to_numeric accepts for one string: digits, the empty string and
\* "nan" (both become NaN)
NumericText(t) == t = <<>> \/ t = NanText \/ AllDigits(t)

ParseNumber(t) == IF AllDigits(t) THEN Num(DecimalValue(t, 0)) ELSE NaN

\* Series.astype(str): a missing value becomes the text "nan"
AsTypeStr(c) == IF IsNull(c) THEN Str(NanText) ELSE c

\* .astype(str).str.replace(',', '')
StrippedCell(c) == Str(StripCommas(AsTypeStr(c).s))

StrippedCells(cells) == [i \in 1..Len(cells) |-> StrippedCell(cells[i])]

\* pd.to_numeric(series, errors='ignore'): the parsed numbers when every
\* value parses, otherwise the series it was given
ToNumericIgnore(col) ==
  LET given == StrippedCells(col.cells)
  IN IF \A i \in 1..Len(given) : NumericText(given[i].s)
     THEN [col EXCEPT !.dtype = "number",
                      !.cells = [i \in 1..Len(given) |-> ParseNumber(given[i].s)]]
     ELSE [col EXCEPT !.cells = given]

\* What pd.to_datetime accepts for one value
DateText(t) == Len(t) = 3 /\ t[1] \in Digits /\ t[2] = "-" /\ t[3] \in Digits

DateParses(c) ==
  \/ IsNull(c)
  \/ c.k = "date"
  \/ c.k = "str" /\ (c.s = <<>> \/ c.s = NanText \/ DateText(c.s))

ParseDate(c) ==
  IF c.k = "date" THEN c
  ELSE IF c.k = "str" /\ DateText(c.s)
       THEN Date(10 * DigitVal(c.s[1]) + DigitVal(c.s[3]))
       ELSE NaN

\* pd.to_datetime(series, errors='ignore')
ToDatetimeIgnore(col) ==
  IF \A i \in 1..Len(col.cells) : DateParses(col.cells[i])
  THEN [col EXCEPT !.dtype = "datetime64",
                   !.cells = [i \in 1..Len(col.cells) |-> ParseDate(col.cells[i])]]
  ELSE col

----------------------------------------------------------------------------
(* Tables *)

RECURSIVE SelectSeqIdx(_, _, _)
\* the subsequence of seq at the indices i (in order) with keep[i]
SelectSeqIdx(seq, keep, i) ==
  IF i > Len(seq) THEN <<>>
  ELSE (IF keep[i] THEN <<seq[i]>> ELSE <<>>) \o SelectSeqIdx(seq, keep, i + 1)

\* df.dropna(how='all'): drop the rows in which every cell is missing
DropEmptyRows(t) ==
  LET keep == [r \in 1..t.nrows |->
                 \E c \in 1..Len(t.cols) : ~IsNull(t.cols[c].cells[r])]
      n == Cardinality({r \in 1..t.nrows : keep[r]})
  IN [nrows |-> n,
      cols |-> [c \in 1..Len(t.cols) |->
                  [t.cols[c] EXCEPT !.cells = SelectSeqIdx(t.cols[c].cells, keep, 1)]]]

\* .dropna(axis=1, how='all'): drop the columns in which every cell is missing
DropEmptyCols(t) ==
  LET keep == [c \in 1..Len(t.cols) |->
                 \E r \in 1..t.nrows : ~IsNull(t.cols[c].cells[r])]
  IN [t EXCEPT !.cols = SelectSeqIdx(t.cols, keep, 1)]

\* step 1 (data.py:70)
CleanStep1(t) == DropEmptyCols(DropEmptyRows(t))

\* step 2 (data.py:73-79)
CleanStep2(t) ==
  [t EXCEPT !.cols = [c \in 1..Len(t.cols) |->
     IF t.cols[c].dtype = "object" THEN ToNumericIgnore(t.cols[c]) ELSE t.cols[c]]]

\* step 3 (data.py:82-87)
CleanStep3(t) ==
  [t EXCEPT !.cols = [c \in 1..Len(t.cols) |->
     IF t.cols[c].dtype = "object" THEN ToDatetimeIgnore(t.cols[c]) ELSE t.cols[c]]]

auto_clean_data(t) == CleanStep3(CleanStep2(CleanStep1(t)))

----------------------------------------------------------------------------
(* Type inference *)

SampleSize == 100

DropNa(cells) == SelectSeqIdx(cells, [i \in 1..Len(cells) |-> ~IsNull(cells[i])], 1)

HeadN(cells, k) == IF Len(cells) <= k THEN cells ELSE SubSeq(cells, 1, k)

\* pd.to_datetime(df[col].dropna().head(100)) raises no exception
SampleParsesAsDates(col) ==
  LET sample == HeadN(DropNa(col.cells), SampleSize)
  IN \A i \in 1..Len(sample) : DateParses(sample[i])

\* the names of the columns c of t with keep[c], in the table's order
NamesWhere(t, keep) ==
  LET kept == SelectSeqIdx(t.cols, keep, 1)
  IN [i \in 1..Len(kept) |-> kept[i].name]

\* data.py:49-63: the three select_dtypes lists, then every object column
\* whose sample parses as dates moves from categorical to datetime
detect_data_types(t) ==
  LET idx == 1..Len(t.cols)
      promoted == [c \in idx |-> t.cols[c].dtype = "object"
                                   /\ SampleParsesAsDates(t.cols[c])]
  IN [numeric |-> NamesWhere(t, [c \in idx |-> t.cols[c].dtype = "number"]),
      categorical |-> NamesWhere(t, [c \in idx |-> t.cols[c].dtype = "object"
                                                     /\ ~promoted[c]]),
      datetime |-> NamesWhere(t, [c \in idx |-> t.cols[c].dtype = "datetime64"])
                     \o NamesWhere(t, promoted)]

----------------------------------------------------------------------------
(* Raw tables: what pd.read_excel can hand over *)

NumberCells == {NaN, Num(1)}
BoolCells == {Bool(TRUE), Bool(FALSE)}
DateCells == {NaN, Date(12)}
ObjectCells == {NaN} \cup {Str(t) : t \in Texts}

CellsOf(dtype) ==
  CASE dtype = "number" -> NumberCells
    [] dtype = "bool" -> BoolCells
    [] dtype = "datetime64" -> DateCells
    [] dtype = "object" -> ObjectCells

Dtypes == {"number", "bool", "datetime64", "object"}

RawColumns(nr) ==
  UNION { { [dtype |-> d, cells |-> cs] : cs \in [1..nr -> CellsOf(d)] } : d \in Dtypes }

\* the table with nr rows whose columns are f[1], ..., f[nc]
RawTable(nr, nc, f) ==
  [nrows |-> nr,
   cols |-> [c \in 1..nc |-> [name |-> c, dtype |-> f[c].dtype, cells |-> f[c].cells]]]

NoTable == [nrows |-> 0, cols |-> <<>>]
NoTypes == [numeric |-> <<>>, categorical |-> <<>>, datetime |-> <<>>]

----------------------------------------------------------------------------
(* The cleaning pipeline of an upload: auto_clean_data, detect_data_types,  *)
(* and auto_clean_data applied to its own result                            *)

NoOpts == [summary |-> TRUE, numeric |-> TRUE, categorical |-> TRUE,
           timeseries |-> TRUE, insights |-> TRUE]
NoHas == [numeric |-> FALSE, categorical |-> FALSE, datetime |-> FALSE]
NoRate == [missing |-> 0, rows |-> 0, cols |-> 0]

\* the variables of main() at rest
MainIdle ==
  /\ uploaded = FALSE /\ opts = NoOpts /\ has = NoHas /\ log = <<>>
  /\ raised = "none"

mainVars == <<uploaded, opts, has, log, raised>>
outVars == <<rateIn, insights, pairs>>

InitClean ==
  /\ phase = "raw"
  /\ \E nr \in 1..MaxRows, nc \in 1..MaxCols :
       \E f \in [1..nc -> RawColumns(nr)] : raw = RawTable(nr, nc, f)
  /\ df = NoTable
  /\ df2 = NoTable
  /\ types = NoTypes
  /\ MainIdle
  /\ rateIn = NoRate /\ insights = <<>> /\ pairs = <<>>

Clean ==
  /\ phase = "raw"
  /\ df' = auto_clean_data(raw)
  /\ phase' = "cleaned"
  /\ UNCHANGED <<raw, df2, types, mainVars, outVars>>

Detect ==
  /\ phase = "cleaned"
  /\ types' = detect_data_types(df)
  /\ phase' = "typed"
  /\ UNCHANGED <<raw, df, df2, mainVars, outVars>>

CleanAgain ==
  /\ phase = "typed"
  /\ df2' = auto_clean_data(df)
  /\ phase' = "recleaned"
  /\ UNCHANGED <<raw, df, types, mainVars, outVars>>

NextClean == Clean \/ Detect \/ CleanAgain

SpecClean == InitClean /\ [][NextClean]_vars

SeqToSet(q) == {q[i] : i \in 1..Len(q)}
Occurrences(q, x) == Cardinality({i \in 1..Len(q) : q[i] = x})

\* C1: after type inference every retained column is in exactly one of the
\* three lists (numeric, categorical, temporal), whatever its storage type.
C1_ClassificationIsPartition ==
  phase \in {"typed", "recleaned"} =>
    \A c \in 1..Len(df.cols) :
      Occurrences(types.numeric, df.cols[c].name)
        + Occurrences(types.categorical, df.cols[c].name)
        + Occurrences(types.datetime, df.cols[c].name) = 1

\* a non-missing value of the column does not parse as a number after comma
\* stripping
HasUnparseableValue(col) ==
  \E i \in 1..Len(col.cells) :
    /\ ~IsNull(col.cells[i])
    /\ col.cells[i].k = "str"
    /\ ~NumericText(StripCommas(col.cells[i].s))

\* C2: step 2 leaves a non-numeric column with an unparseable value
\* cell-for-cell identical: commas kept, missing cells still missing.
C2_UnparseableColumnUnchanged ==
  phase # "raw" =>
    LET before == CleanStep1(raw)
        after == CleanStep2(before)
    IN \A c \in 1..Len(before.cols) :
         (before.cols[c].dtype = "object" /\ HasUnparseableValue(before.cols[c]))
           => after.cols[c] = before.cols[c]

\* C3: auto_clean_data is idempotent: cleaning the cleaned table returns a
\* table identical to it.
C3_CleanIsIdempotent ==
  phase = "recleaned" => df2 = df

AllMissing(col) ==
  Len(col.cells) > 0 /\ \A i \in 1..Len(col.cells) : IsNull(col.cells[i])

\* C10: a column made up entirely of missing values is classified
\* categorical, never numeric and never temporal.
C10_AllMissingIsCategorical ==
  phase \in {"typed", "recleaned"} =>
    \A c \in 1..Len(df.cols) :
      AllMissing(df.cols[c]) =>
        /\ df.cols[c].name \in SeqToSet(types.categorical)
        /\ df.cols[c].name \notin SeqToSet(types.numeric)
        /\ df.cols[c].name \notin SeqToSet(types.datetime)

----------------------------------------------------------------------------
(* main(): one script run.  Every call inside the try block of the upload   *)
(* path (data.py:422-460) may raise; the single except clause reports the   *)
(* error and the run goes on to the footer.  The demo path (data.py:467-    *)
(* 490) works on the fixed, seeded sample table.                            *)

Components ==
  {"create_summary_stats", "auto_visualize_numeric", "auto_visualize_categorical",
   "auto_visualize_time_series", "suggest_analysis_insights",
   "create_download_section"}

\* the condition main tests before calling a component (data.py:440-456)
Wanted(c) ==
  CASE c = "create_summary_stats" -> opts.summary
    [] c = "auto_visualize_numeric" -> opts.numeric /\ has.numeric
    [] c = "auto_visualize_categorical" -> opts.categorical /\ has.categorical
    [] c = "auto_visualize_time_series" ->
         opts.timeseries /\ has.datetime /\ has.numeric
    [] c = "suggest_analysis_insights" -> opts.insights
    [] c = "create_download_section" -> TRUE

\* the order of the calls in main's try block
CallOrder ==
  <<"read_excel", "auto_clean_data", "detect_data_types", "create_summary_stats",
    "auto_visualize_numeric", "auto_visualize_categorical",
    "auto_visualize_time_series", "suggest_analysis_insights",
    "create_download_section">>

OrderOf(c) == CHOOSE i \in 1..Len(CallOrder) : CallOrder[i] = c

\* except Exception as e: st.error(...) (data.py:458-460)
Except(call) ==
  /\ raised' = call
  /\ log' = Append(log, "st.error")
  /\ phase' = "done"

InitMain ==
  /\ phase = "start"
  /\ uploaded \in BOOLEAN
  /\ opts \in [summary : BOOLEAN, numeric : BOOLEAN, categorical : BOOLEAN,
               timeseries : BOOLEAN, insights : BOOLEAN]
  /\ has = NoHas
  /\ log = <<>>
  /\ raised = "none"
  /\ raw = NoTable /\ df = NoTable /\ df2 = NoTable /\ types = NoTypes
  /\ rateIn = NoRate /\ insights = <<>> /\ pairs = <<>>

dataVars == <<raw, df, df2, types, rateIn, insights, pairs>>

\* sheet selection: pd.ExcelFile(uploaded_file); a failure returns from main
OpenExcel ==
  /\ phase = "start" /\ uploaded
  /\ \E ok \in BOOLEAN :
       IF ok THEN /\ phase' = "load"
                  /\ UNCHANGED <<log, raised>>
       ELSE /\ phase' = "done"
            /\ raised' = "ExcelFile"
            /\ log' = Append(log, "st.error")
  /\ UNCHANGED <<uploaded, opts, has, dataVars>>

\* the load step without the call of auto_clean_data
LoadDataNoClean ==
  /\ phase = "load"
  /\ \E outcome \in {"ok", "read_raises"} :
       CASE outcome = "ok" ->
              /\ log' = log \o <<"read_excel">>
              /\ phase' = "detect"
              /\ UNCHANGED raised
         [] outcome = "read_raises" -> Except("read_excel")
  /\ UNCHANGED <<uploaded, opts, has, dataVars>>

\* df = pd.read_excel(...); df, ... = auto_clean_data(df) (data.py:425-428)
LoadData ==
  /\ phase = "load"
  /\ \E outcome \in {"ok", "read_raises", "clean_raises"} :
       CASE outcome = "ok" ->
              /\ log' = log \o <<"read_excel", "auto_clean_data">>
              /\ phase' = "detect"
              /\ UNCHANGED raised
         [] outcome = "read_raises" -> Except("read_excel")
         [] outcome = "clean_raises" ->
              /\ raised' = "auto_clean_data"
              /\ log' = log \o <<"read_excel", "st.error">>
              /\ phase' = "done"
  /\ UNCHANGED <<uploaded, opts, has, dataVars>>

\* numeric_cols, categorical_cols, datetime_cols = detect_data_types(df)
DetectTypes ==
  /\ phase = "detect"
  /\ \E ok \in BOOLEAN :
       IF ok
       THEN /\ \E h \in [numeric : BOOLEAN, categorical : BOOLEAN, datetime : BOOLEAN] :
                 has' = h
            /\ log' = Append(log, "detect_data_types")
            /\ phase' = "create_summary_stats"
            /\ UNCHANGED raised
       ELSE Except("detect_data_types") /\ UNCHANGED has
  /\ UNCHANGED <<uploaded, opts, dataVars>>

\* `if <condition>: component(df, ...)` inside the try block
Component(c, next) ==
  /\ phase = c
  /\ IF Wanted(c)
     THEN \E ok \in BOOLEAN :
            IF ok THEN /\ log' = Append(log, c)
                       /\ phase' = next
                       /\ UNCHANGED raised
            ELSE Except(c)
     ELSE /\ phase' = next
          /\ UNCHANGED <<log, raised>>
  /\ UNCHANGED <<uploaded, opts, has, dataVars>>

Summary == Component("create_summary_stats", "auto_visualize_numeric")
NumericViz == Component("auto_visualize_numeric", "auto_visualize_categorical")
CategoricalViz == Component("auto_visualize_categorical", "auto_visualize_time_series")
TimeSeriesViz == Component("auto_visualize_time_series", "suggest_analysis_insights")
Insights == Component("suggest_analysis_insights", "create_download_section")
Download == Component("create_download_section", "done")

\* no upload: the demo button (data.py:467)
DemoButton ==
  /\ phase = "start" /\ ~uploaded
  /\ \E clicked \in BOOLEAN : phase' = IF clicked THEN "demo" ELSE "done"
  /\ UNCHANGED <<uploaded, opts, has, log, raised, dataVars>>

\* data.py:469-490: the sample table is built and handed to detect_data_types
\* and the five components; auto_clean_data is not called
DemoRun ==
  /\ phase = "demo"
  /\ has' = [numeric |-> TRUE, categorical |-> TRUE, datetime |-> TRUE]
  /\ log' = log \o <<"detect_data_types", "create_summary_stats",
                     "auto_visualize_numeric", "auto_visualize_categorical",
                     "auto_visualize_time_series", "suggest_analysis_insights">>
  /\ phase' = "done"
  /\ UNCHANGED <<uploaded, opts, raised, dataVars>>

Next ==
  \/ OpenExcel \/ LoadData \/ DetectTypes
  \/ Summary \/ NumericViz \/ CategoricalViz \/ TimeSeriesViz \/ Insights
  \/ Download
  \/ DemoButton \/ DemoRun

Spec == InitMain /\ [][Next]_vars

Ran(c) == c \in SeqToSet(log)

\* a call named `a` precedes position i of the log
Before(a, i) == \E j \in 1..(i - 1) : log[j] = a

\* C4: only an input-reading failure is fatal: when another component fails,
\* every enabled component after it, and the export section, still runs.
C4_FailureIsContained ==
  (phase = "done" /\ raised \in (SeqToSet(CallOrder) \ {"read_excel"})) =>
    \A c \in Components :
      (OrderOf(c) > OrderOf(raised) /\ Wanted(c)) => Ran(c)

\* C5: in every run, upload and demo alike, the table is cleaned before it is
\* classified and classified before any component runs.
C5_CleanedThenClassifiedAlways ==
  \A i \in 1..Len(log) :
    /\ log[i] \in Components \cup {"detect_data_types"} => Before("auto_clean_data", i)
    /\ log[i] \in Components => Before("detect_data_types", i)

\* C5 as amended: in a run on an uploaded file the table is cleaned before it
\* is classified and classified before any component runs; the sample-data
\* demo classifies before any component runs but never calls the cleaner.
C5_CleanedThenClassifiedOnUpload ==
  \A i \in 1..Len(log) :
    /\ log[i] \in Components => Before("detect_data_types", i)
    /\ (uploaded /\ log[i] \in Components \cup {"detect_data_types"})
         => Before("auto_clean_data", i)
    /\ ~uploaded => log[i] # "auto_clean_data"

C5_Witness ==
  /\ uploaded /\ phase = "done" /\ raised = "none"
  /\ Ran("suggest_analysis_insights") /\ Ran("create_download_section")
  /\ Ran("auto_clean_data")

----------------------------------------------------------------------------
(* suggest_analysis_insights *)

Insight(rule, count, names) == [rule |-> rule, count |-> count, cols |-> names]

\* The missing rate as an exact fraction num/den; den = 0 is the NaN that
\* 0/0 yields
MissingRate(missing, rows, cols) == [num |-> missing * 100, den |-> rows * cols]

\* rate > k and rate < k; every comparison with NaN is false
RateGt(rate, k) == rate.den > 0 /\ rate.num > k * rate.den
RateGe(rate, k) == rate.den > 0 /\ rate.num >= k * rate.den
RateLt(rate, k) == rate.den > 0 /\ rate.num < k * rate.den

WarnThreshold == 10
GoodThreshold == 1

\* the rule with the warning firing at the threshold itself (>= for >)
MissingRateRuleInclusive(missing, rows, cols) ==
  LET missing_rate == MissingRate(missing, rows, cols)
  IN IF RateGe(missing_rate, WarnThreshold)
     THEN <<Insight("quality_warning", 0, <<>>)>>
     ELSE IF RateLt(missing_rate, GoodThreshold)
          THEN <<Insight("quality_good", 0, <<>>)>>
          ELSE <<>>

\* data.py:295-299
MissingRateRule(missing, rows, cols) ==
  LET missing_rate == MissingRate(missing, rows, cols)
  IN IF RateGt(missing_rate, WarnThreshold)
     THEN <<Insight("quality_warning", 0, <<>>)>>
     ELSE IF RateLt(missing_rate, GoodThreshold)
          THEN <<Insight("quality_good", 0, <<>>)>>
          ELSE <<>>

RECURSIVE SumSeq(_)
SumSeq(q) == IF q = <<>> THEN 0 ELSE Head(q) + SumSeq(Tail(q))

ColumnNamed(t, name) ==
  t.cols[CHOOSE c \in 1..Len(t.cols) : t.cols[c].name = name]

\* the non-missing numbers of a column (pandas reductions skip NaN)
Values(col) == LET kept == DropNa(col.cells) IN [i \in 1..Len(kept) |-> kept[i].n]

\* df.isnull().sum().sum()
TotalMissing(t) ==
  SumSeq([c \in 1..Len(t.cols) |->
            Cardinality({r \in 1..t.nrows : IsNull(t.cols[c].cells[r])})])

\* n * sum(x^2) - sum(x)^2 = n * (n - 1) * std^2
ScaledVariance(v) ==
  Len(v) * SumSeq([i \in 1..Len(v) |-> v[i] * v[i]]) - SumSeq(v) * SumSeq(v)

\* df[col].std() / df[col].mean() > 1 (data.py:308), in float64 arithmetic:
\* std is NaN below two values; x / 0.0 is inf for x > 0 and NaN for x = 0;
\* a negative mean gives a ratio <= 0
StdOverMeanExceedsOne(col) ==
  LET v == Values(col)
      n == Len(v)
      total == SumSeq(v)
  IN IF n <= 1 THEN FALSE
     ELSE IF total = 0 THEN ScaledVariance(v) > 0
     ELSE IF total < 0 THEN FALSE
     ELSE n * ScaledVariance(v) > (n - 1) * total * total

\* df[col].nunique()
NUnique(col) == Cardinality({col.cells[i] : i \in {j \in 1..Len(col.cells) : ~IsNull(col.cells[j])}})

FirstThree(names) == HeadN(names, 3)

\* data.py:302-312
NumericRules(t, numeric_cols) ==
  IF Len(numeric_cols) >= 2
  THEN LET high_variance_cols ==
             SelectSeqIdx(numeric_cols,
                          [i \in 1..Len(numeric_cols) |->
                             StdOverMeanExceedsOne(ColumnNamed(t, numeric_cols[i]))], 1)
       IN <<Insight("numeric_richness", Len(numeric_cols), <<>>)>>
          \o (IF high_variance_cols # <<>>
              THEN <<Insight("high_variance", 0, FirstThree(high_variance_cols))>>
              ELSE <<>>)
  ELSE <<>>

\* data.py:315-326
CategoricalRules(t, categorical_cols) ==
  IF Len(categorical_cols) >= 1
  THEN LET low_cardinality_cols ==
             SelectSeqIdx(categorical_cols,
                          [i \in 1..Len(categorical_cols) |->
                             10 * NUnique(ColumnNamed(t, categorical_cols[i])) < t.nrows], 1)
       IN <<Insight("categorical_richness", Len(categorical_cols), <<>>)>>
          \o (IF low_cardinality_cols # <<>>
              THEN <<Insight("low_cardinality", 0, FirstThree(low_cardinality_cols))>>
              ELSE <<>>)
  ELSE <<>>

\* data.py:329-330
TemporalRule(datetime_cols) ==
  IF datetime_cols # <<>> THEN <<Insight("temporal", 0, <<>>)>> ELSE <<>>

suggest_analysis_insights(t, numeric_cols, categorical_cols, datetime_cols) ==
  MissingRateRule(TotalMissing(t), t.nrows, Len(t.cols))
    \o NumericRules(t, numeric_cols)
    \o CategoricalRules(t, categorical_cols)
    \o TemporalRule(datetime_cols)

(* The tables handed to the insight rules: cleaned tables (fixed points of   *)
(* auto_clean_data) with their classification                                *)
MaxInsightRows == 3
MaxInsightCols == 2

InsightNumbers == {NaN, Num(-1), Num(0), Num(1), Num(3)}
InsightTexts == {Str(<<"a">>), Str(<<"b">>)}

InsightColumns(nr) ==
  { [dtype |-> "number", cells |-> cs] : cs \in [1..nr -> InsightNumbers] }
    \cup { [dtype |-> "object", cells |-> cs] : cs \in [1..nr -> InsightTexts] }
    \cup { [dtype |-> "datetime64", cells |-> [r \in 1..nr |-> Date(12)]] }

InitInsight ==
  /\ phase = "cleaned"
  /\ \E nr \in 1..MaxInsightRows, nc \in 1..MaxInsightCols :
       \E f \in [1..nc -> InsightColumns(nr)] :
         /\ df = RawTable(nr, nc, f)
         /\ auto_clean_data(df) = df
  /\ raw = df
  /\ df2 = NoTable
  /\ types = NoTypes
  /\ MainIdle
  /\ rateIn = NoRate /\ insights = <<>> /\ pairs = <<>>

\* main, data.py:433 and 452-453
ClassifyAndSuggest ==
  /\ phase = "cleaned"
  /\ types' = detect_data_types(df)
  /\ insights' = suggest_analysis_insights(df, types'.numeric, types'.categorical,
                                           types'.datetime)
  /\ phase' = "done"
  /\ UNCHANGED <<raw, df, df2, mainVars, rateIn, pairs>>

NextInsight == ClassifyAndSuggest

SpecInsight == InitInsight /\ [][NextInsight]_vars

HighVarianceNamed ==
  UNION { SeqToSet(insights[i].cols) :
            i \in {j \in 1..Len(insights) : insights[j].rule = "high_variance"} }

HighVarianceEmitted == \E i \in 1..Len(insights) : insights[i].rule = "high_variance"

\* the coefficient of variation std/mean is defined (two or more values, a
\* non-zero mean) and exceeds 1
CvExceedsOne(col) ==
  LET v == Values(col)
      n == Len(v)
      total == SumSeq(v)
  IN n >= 2 /\ total > 0 /\ n * ScaledVariance(v) > (n - 1) * total * total

ZeroMean(col) == Len(Values(col)) >= 1 /\ SumSeq(Values(col)) = 0

\* C6: whenever a numeric column has a coefficient of variation above 1 the
\* high-variance insight is emitted, whether or not the numeric-richness rule
\* fires (in particular with exactly one numeric column).
C6_HighVarianceIndependent ==
  phase = "done" =>
    ((\E i \in 1..Len(types.numeric) : CvExceedsOne(ColumnNamed(df, types.numeric[i])))
       => HighVarianceEmitted)

\* C9: a numeric column whose mean is zero never qualifies as high-variance
\* and is never named in the high-variance insight.
C9_ZeroMeanExcluded ==
  phase = "done" =>
    \A i \in 1..Len(types.numeric) :
      ZeroMean(ColumnNamed(df, types.numeric[i]))
        => types.numeric[i] \notin HighVarianceNamed

----------------------------------------------------------------------------
(* The missing-rate rule on its three inputs *)
MaxRateRows == 10
MaxRateCols == 10

InitRate ==
  /\ phase = "rate"
  /\ \E r \in 0..MaxRateRows, c \in 0..MaxRateCols :
       \E m \in 0..(r * c) : rateIn = [missing |-> m, rows |-> r, cols |-> c]
  /\ insights = <<>>
  /\ raw = NoTable /\ df = NoTable /\ df2 = NoTable /\ types = NoTypes
  /\ MainIdle
  /\ pairs = <<>>

EvaluateMissingRate ==
  /\ phase = "rate"
  /\ insights' = MissingRateRule(rateIn.missing, rateIn.rows, rateIn.cols)
  /\ phase' = "done"
  /\ UNCHANGED <<raw, df, df2, types, mainVars, rateIn, pairs>>

NextRate == EvaluateMissingRate

SpecRate == InitRate /\ [][NextRate]_vars

Emitted(rule) == \E i \in 1..Len(insights) : insights[i].rule = rule

Cells == rateIn.rows * rateIn.cols

\* C7: with missingRate = totalMissing / (rows x columns) x 100, the warning
\* is emitted iff the rate is > 10, the good insight iff the rate is < 1,
\* never both, and nothing for a rate in [1, 10], both ends included.
C7_MissingRateStep ==
  phase = "done" =>
    /\ Emitted("quality_warning") <=> (Cells > 0 /\ 100 * rateIn.missing > 10 * Cells)
    /\ Emitted("quality_good") <=> (Cells > 0 /\ 100 * rateIn.missing < Cells)
    /\ ~(Emitted("quality_warning") /\ Emitted("quality_good"))
    /\ (Cells > 0 /\ Cells <= 100 * rateIn.missing /\ 100 * rateIn.missing <= 10 * Cells)
         => insights = <<>>
    /\ Len(insights) <= 1

\* a rate of exactly 10 has been evaluated and nothing was emitted
C7_Witness ==
  /\ phase = "done" /\ Cells > 0 /\ 100 * rateIn.missing = 10 * Cells
  /\ insights = <<>>

----------------------------------------------------------------------------
(* auto_visualize_numeric: the correlation pairs (data.py:170-199) *)

Abs(i) == IF i < 0 THEN -i ELSE i

\* Pearson's r = cov / sqrt(vx * vy) over the rows in which both values are
\* present (DataFrame.corr() deletes pairwise), kept as the three integers
\*   cov = n Sxy - Sx Sy,  vx = n Sxx - Sx^2,  vy = n Syy - Sy^2
Pearson(a, b) ==
  LET rows == 1..Len(a.cells)
      w == [r \in rows |-> IF IsNull(a.cells[r]) \/ IsNull(b.cells[r]) THEN 0 ELSE 1]
      x == [r \in rows |-> w[r] * a.cells[r].n]
      y == [r \in rows |-> w[r] * b.cells[r].n]
      n == SumSeq(w)
      sx == SumSeq(x)
      sy == SumSeq(y)
  IN [cov |-> n * SumSeq([r \in rows |-> x[r] * y[r]]) - sx * sy,
      vx |-> n * SumSeq([r \in rows |-> x[r] * x[r]]) - sx * sx,
      vy |-> n * SumSeq([r \in rows |-> y[r] * y[r]]) - sy * sy]

\* the coefficient is NaN when either column has no variance
IsNaNCorr(p) == p.vx = 0 \/ p.vy = 0

\* the test with >= for >: abs(corr_value) >= 0.5
AbsCorrAtLeastHalf(p) == ~IsNaNCorr(p) /\ 4 * p.cov * p.cov >= p.vx * p.vy

\* abs(corr_value) > 0.5 (data.py:188); false for NaN
AbsCorrAboveHalf(p) == ~IsNaNCorr(p) /\ 4 * p.cov * p.cov > p.vx * p.vy

\* 1000 * |r| >= j - 1/2
AtLeastHalfStep(p, j) ==
  (2 * j - 1) * (2 * j - 1) * p.vx * p.vy <= 4000000 * p.cov * p.cov

RECURSIVE RoundSearch(_, _, _)
\* the largest j in lo..hi with AtLeastHalfStep(p, j), which holds at lo
RoundSearch(p, lo, hi) ==
  IF lo = hi THEN lo
  ELSE LET mid == (lo + hi + 1) \div 2
       IN IF AtLeastHalfStep(p, mid) THEN RoundSearch(p, mid, hi)
          ELSE RoundSearch(p, lo, mid - 1)

\* round(corr_value, 3), in thousandths
Round3(p) ==
  LET k == RoundSearch(p, 0, 1000)
  IN IF p.cov < 0 THEN -k ELSE k

CorrPair(a, b, p) == [v1 |-> a.name, v2 |-> b.name, coef |-> Round3(p)]

RECURSIVE InsertDescending(_, _)
\* stable insertion behind the entries whose |coef| is not smaller
InsertDescending(sorted, e) ==
  IF sorted = <<>> THEN <<e>>
  ELSE IF Abs(Head(sorted).coef) >= Abs(e.coef)
       THEN <<Head(sorted)>> \o InsertDescending(Tail(sorted), e)
       ELSE <<e>> \o sorted

RECURSIVE SortDescendingAbs(_)
\* corr_df.sort_values('coef', key=abs, ascending=False) (data.py:198)
SortDescendingAbs(q) ==
  IF q = <<>> THEN <<>>
  ELSE InsertDescending(SortDescendingAbs(SubSeq(q, 1, Len(q) - 1)), q[Len(q)])

RECURSIVE PairsFrom(_, _, _, _)
\* the double loop i < j over corr_matrix.columns (data.py:185-193)
PairsFrom(t, cols, i, j) ==
  IF i > Len(cols) THEN <<>>
  ELSE IF j > Len(cols) THEN PairsFrom(t, cols, i + 1, i + 2)
  ELSE LET a == ColumnNamed(t, cols[i])
           b == ColumnNamed(t, cols[j])
           corr_value == Pearson(a, b)
       IN (IF AbsCorrAboveHalf(corr_value) THEN <<CorrPair(a, b, corr_value)>>
           ELSE <<>>)
            \o PairsFrom(t, cols, i, j + 1)

\* auto_visualize_numeric(df, numeric_cols): the strong pairs it shows
StrongPairs(t, numeric_cols) ==
  IF Len(numeric_cols) >= 2
  THEN SortDescendingAbs(PairsFrom(t, numeric_cols, 1, 2))
  ELSE <<>>

MaxCorrRows == 4
CorrNames == <<"x", "y", "z">>
CorrNumbers == {Num(0), Num(1)}

\* the table of nr rows whose columns hold the numbers f[1], ..., f[nc]; the
\* cells r of the last column with gap[r] are missing
CorrTable(nr, nc, f, gap) ==
  [nrows |-> nr,
   cols |-> [c \in 1..nc |->
              [name |-> CorrNames[c], dtype |-> "number",
               cells |-> [r \in 1..nr |-> IF c = nc /\ gap[r] THEN NaN ELSE f[c][r]]]]]

InitCorr ==
  /\ phase = "cleaned"
  /\ \E nr \in 1..MaxCorrRows, nc \in 0..Len(CorrNames) :
       \E f \in [1..nc -> [1..nr -> CorrNumbers]], gap \in [1..nr -> BOOLEAN] :
         df = CorrTable(nr, nc, f, gap)
  /\ raw = df
  /\ df2 = NoTable
  /\ types = NoTypes
  /\ MainIdle
  /\ rateIn = NoRate /\ insights = <<>> /\ pairs = <<>>

\* main, data.py:433 and 443-444
ClassifyAndCorrelate ==
  /\ phase = "cleaned"
  /\ types' = detect_data_types(df)
  /\ pairs' = StrongPairs(df, types'.numeric)
  /\ phase' = "done"
  /\ UNCHANGED <<raw, df, df2, mainVars, rateIn, insights>>

NextCorr == ClassifyAndCorrelate

SpecCorr == InitCorr /\ [][NextCorr]_vars

\* Pearson's r from the deviations from the mean over the rows in which both
\* values are present, scaled by the number n of such rows:
\*   sum (n x - Sx)(n y - Sy) and the two sums of squares
Centered(a, b) ==
  LET rows == DropNa([r \in 1..Len(a.cells) |->
                        IF IsNull(a.cells[r]) \/ IsNull(b.cells[r]) THEN NaN
                        ELSE Date(r)])
      n == Len(rows)
      x == [i \in 1..n |-> a.cells[rows[i].n].n]
      y == [i \in 1..n |-> b.cells[rows[i].n].n]
      sx == SumSeq(x)
      sy == SumSeq(y)
  IN [cxy |-> SumSeq([i \in 1..n |-> (n * x[i] - sx) * (n * y[i] - sy)]),
      cxx |-> SumSeq([i \in 1..n |-> (n * x[i] - sx) * (n * x[i] - sx)]),
      cyy |-> SumSeq([i \in 1..n |-> (n * y[i] - sy) * (n * y[i] - sy)])]

\* all the values present in the column are equal
ZeroVariance(col) == Cardinality(SeqToSet(DropNa(col.cells))) <= 1

StronglyCorrelated(a, b) ==
  LET c == Centered(a, b)
  IN c.cxx > 0 /\ c.cyy > 0 /\ 4 * c.cxy * c.cxy > c.cxx * c.cyy

Listed(a, b) ==
  \E i \in 1..Len(pairs) : {pairs[i].v1, pairs[i].v2} = {a, b}

====
